---- MODULE Spec2Model ----
(***************************************************************************)
(* A model of the mock chat-completion server of src/main.go: one request  *)
(* context, from the mux's dispatch to the handler's return.  The request, *)
(* the random draws, the response writer and every local variable of the   *)
(* handlers are state; each handler (and, inside the streaming responder,  *)
(* each step between two observable effects) is an action.  SpecClose     *)
(* adds a client that closes the connection, SpecConc a second request     *)
(* context whose locals are kept in parked while the first one runs.       *)
(*                                                                         *)
(* Go strings are sequences of bytes (0..255); []rune(s) and string(runes) *)
(* are the UTF-8 decoder and encoder.  Strings that the code never cuts    *)
(* (ids, roles, model names, header values) are TLA+ strings.              *)
(***************************************************************************)
EXTENDS Integers, Sequences, FiniteSets, TLC

VARIABLES
    pc,        \* position of the request context
    r,         \* *http.Request: Path, Method, ContentEncoding, Body
    w,         \* http.ResponseWriter: status, header, body, flushed, flusher,
               \* closed (the connection), dropped (writes that failed)
    now,       \* wall clock, milliseconds
    draws,     \* values returned by rand.Intn(10), in call order
    trace,     \* observable operations of the context, in order
    req,       \* decoded ChatCompletionRequest
    response,  \* handleStreamingResponse: response
    id,        \* handleStreamingResponse: id
    created,   \* handleStreamingResponse: created
    runes,     \* handleStreamingResponse: runes
    i,         \* handleStreamingResponse: loop index
    chunk,     \* writeChunk: chunk
    ret,       \* writeChunk: where it returns to
    parked     \* the locals of the request context that is not running

vars == <<pc, r, w, now, draws, trace, req, response, id, created, runes, i, chunk,
          ret, parked>>

---------------------------------------------------------------------------
(* Bounds of the model *)

\* longest prefix of a reply text that is tried besides the full fixed reply
MaxLen == 3

\* how many values at each end of a large rand.Intn range are tried
SampleWidth == 1

\* wall-clock time (ms) at which the request arrives: 50 ms before the
\* clock's second changes
StartTime == 950

\* number of characters of the longest reply streamed by two contexts at once
ConcLen == 3

---------------------------------------------------------------------------
(* Program constants *)

StreamResponseInterval == 50

StatusOK == 200

StatusBadRequest == 400

StatusMethodNotAllowed == 405

StatusInternalServerError == 500

MaxDelay == 5000

FailRange == 10

FailBelow == 5

IdLength == 10

SystemFingerprint == "fp_44709d6fcb"

\* "who are you? and what are you doing here? and what is your purpose?"
FixedReply ==
    <<119,104,111,32,97,114,101,32,121,111,117,63,32,97,110,100,32,119,104,97,
      116,32,97,114,101,32,121,111,117,32,100,111,105,110,103,32,104,101,114,
      101,63,32,97,110,100,32,119,104,97,116,32,105,115,32,121,111,117,114,32,
      112,117,114,112,111,115,101,63>>

generateResponse(messages) == FixedReply

---------------------------------------------------------------------------
(* UTF-8: []rune(s) and string(runes) *)

RuneError == 65533

IsCont(b) == b >= 128 /\ b <= 191

\* the first rune of the non-empty byte sequence s and the bytes it takes
DecodeRune(s) ==
    LET b1 == s[1]
        n  == Len(s)
        bad == [rune |-> RuneError, size |-> 1]
    IN  IF b1 < 128 THEN [rune |-> b1, size |-> 1]
        ELSE IF b1 >= 194 /\ b1 <= 223 THEN
            IF n >= 2 /\ IsCont(s[2])
            THEN [rune |-> (b1 - 192) * 64 + (s[2] - 128), size |-> 2]
            ELSE bad
        ELSE IF b1 >= 224 /\ b1 <= 239 THEN
            IF /\ n >= 3
               /\ IsCont(s[2])
               /\ IsCont(s[3])
               /\ (b1 = 224 => s[2] >= 160)
               /\ (b1 = 237 => s[2] <= 159)
            THEN [rune |-> (b1 - 224) * 4096 + (s[2] - 128) * 64 + (s[3] - 128),
                  size |-> 3]
            ELSE bad
        ELSE IF b1 >= 240 /\ b1 <= 244 THEN
            IF /\ n >= 4
               /\ IsCont(s[2])
               /\ IsCont(s[3])
               /\ IsCont(s[4])
               /\ (b1 = 240 => s[2] >= 144)
               /\ (b1 = 244 => s[2] <= 143)
            THEN [rune |-> (b1 - 240) * 262144 + (s[2] - 128) * 4096
                           + (s[3] - 128) * 64 + (s[4] - 128),
                  size |-> 4]
            ELSE bad
        ELSE bad

\* []rune(s): the runes decoded one after the other, from[k] being those of
\* the bytes from place k on
StringToRunes(s) ==
    LET from[k \in 1..(Len(s) + 1)] ==
            IF k > Len(s) THEN << >>
            ELSE LET d == DecodeRune(SubSeq(s, k, Len(s)))
                 IN  <<d.rune>> \o from[k + d.size]
    IN  from[1]

\* the UTF-8 encoding of one rune
EncodeRune(c) ==
    IF c < 0 \/ c > 1114111 \/ (c >= 55296 /\ c <= 57343)
    THEN <<239, 191, 189>>
    ELSE IF c < 128 THEN <<c>>
    ELSE IF c < 2048 THEN <<192 + (c \div 64), 128 + (c % 64)>>
    ELSE IF c < 65536
    THEN <<224 + (c \div 4096), 128 + ((c \div 64) % 64), 128 + (c % 64)>>
    ELSE <<240 + (c \div 262144), 128 + ((c \div 4096) % 64),
           128 + ((c \div 64) % 64), 128 + (c % 64)>>

\* string(rs) for a slice of runes: the encodings one after the other
RunesToString(rs) ==
    LET from[k \in 1..(Len(rs) + 1)] ==
            IF k > Len(rs) THEN << >>
            ELSE EncodeRune(rs[k]) \o from[k + 1]
    IN  from[1]

---------------------------------------------------------------------------
(* Inputs of a request *)

Routes ==
    {"/v1/chat/completions", "/rand_sleep/v1/chat/completions",
     "/rand_fail/v1/chat/completions", "/rand_all/v1/chat/completions"}

Methods == {"POST", "GET"}

\* values of the Content-Encoding header; "" is no header
Encodings == {"", "gzip"}

Models == {"x", "gpt-4"}

Messages == <<[Role |-> "user", Content |-> <<104, 105>>]>>

\* the JSON documents a body may carry: one that does not decode into a
\* ChatCompletionRequest, and the requests
JsonDocs ==
    {[valid |-> FALSE, model |-> "", stream |-> FALSE]} \cup
    [valid : {TRUE}, model : Models, stream : BOOLEAN]

\* the bytes of a body: the document as it is, a gzip stream of it, or a
\* gzip header followed by a damaged deflate stream
Framings == {"identity", "gzip", "gzipDamaged"}

Bodies == [framing : Framings, json : JsonDocs]

\* a text with 2-, 3-, 1- and 4-byte characters: e-acute, euro sign, a, G clef
UnicodeText == <<195, 169, 226, 130, 172, 97, 240, 157, 132, 158>>

Take(s, n) == SubSeq(s, 1, IF n < Len(s) THEN n ELSE Len(s))

\* the reply texts the streaming responder is run on: the reply of
\* generateResponse, the non-ASCII text, and their prefixes of up to MaxLen
\* characters (the empty reply and the odd and even lengths among them)
Replies ==
    LET texts == {generateResponse(Messages), UnicodeText}
    IN  texts \cup {RunesToString(Take(StringToRunes(t), n)) : t \in texts, n \in 0..MaxLen}

\* rand.Intn(n): every value when n is small, else the ends of the range
Intn(n) ==
    IF n <= FailRange THEN 0..(n - 1)
    ELSE {x \in 0..(n - 1) : x < SampleWidth \/ x >= n - SampleWidth}

LetterCount == 62

\* randomString(n): n letters, each letters[rand.Intn(len(letters))], a
\* letter being its index; the results tried are those of one repeated draw
randomString(n) == {[k \in 1..n |-> l] : l \in {0, LetterCount - 1}}

NewId(suffix) == [prefix |-> "chatcmpl-", suffix |-> suffix]

\* time.Now().Unix()
Unix(ms) == ms \div 1000

---------------------------------------------------------------------------
(* The request, the response writer and the trace *)

Event(op, name, n) == [op |-> op, name |-> name, n |-> n]

\* a ResponseWriter on which nothing was set or written, its connection
\* open; dropped keeps the writes made after the connection closed
NewResponseWriter(flusher) ==
    [status |-> 0, header |-> {}, body |-> << >>, flushed |-> 0,
     flusher |-> flusher, closed |-> FALSE, dropped |-> << >>]

\* w.Header().Set(k, v): the header as a set of <<key, value>>
HeaderSet(rw, k, v) ==
    [rw EXCEPT !.header = {h \in @ : h[1] # k} \cup {<<k, v>>}]

\* w.Write(data): the first write sends the status line with 200; on a
\* closed connection the write fails and nothing reaches the client (the
\* handlers do not look at the error)
Write(rw, data) ==
    IF rw.closed
    THEN [rw EXCEPT !.dropped = Append(@, data)]
    ELSE [rw EXCEPT !.status = IF @ = 0 THEN StatusOK ELSE @,
                    !.body = Append(@, data)]

\* f.Flush(): everything written so far reaches the client
Flush(rw) ==
    IF rw.closed
    THEN rw
    ELSE [rw EXCEPT !.status = IF @ = 0 THEN StatusOK ELSE @,
                    !.flushed = Len(rw.body)]

\* http.Error(w, msg, code)
HttpError(rw, msg, code) ==
    LET h    == HeaderSet(rw, "Content-Type", "text/plain; charset=utf-8")
        text == [kind |-> "text", payload |-> [text |-> msg]]
    IN  IF rw.closed
        THEN [h EXCEPT !.dropped = Append(@, text)]
        ELSE [h EXCEPT !.status = IF @ = 0 THEN code ELSE @,
                       !.body = Append(@, text)]

\* the zero ChatCompletionRequest
ZeroRequest == [Model |-> "", Messages |-> << >>, Stream |-> FALSE]

\* gzip.NewReader(body): fails unless the bytes start with a gzip header
GzipNewReader(body) ==
    IF body.framing = "identity"
    THEN [err |-> TRUE, reader |-> body]
    ELSE [err |-> FALSE,
          reader |-> [framing |-> IF body.framing = "gzip" THEN "identity"
                                  ELSE "unreadable",
                      json |-> body.json]]

\* the decoder's error is dropped: req keeps what was decoded, or its zero
JsonDecodeErrorDropped(body) ==
    [err |-> FALSE,
     req |-> IF body.framing = "identity" /\ body.json.valid
             THEN [Model |-> body.json.model, Messages |-> Messages,
                   Stream |-> body.json.stream]
             ELSE ZeroRequest]

\* json.NewDecoder(body).Decode(&req)
JsonDecode(body) ==
    IF body.framing = "identity" /\ body.json.valid
    THEN [err |-> FALSE,
          req |-> [Model |-> body.json.model, Messages |-> Messages,
                   Stream |-> body.json.stream]]
    ELSE [err |-> TRUE, req |-> ZeroRequest]

---------------------------------------------------------------------------
(* Chunks and their encoding *)

ZeroChunk ==
    [ID |-> NewId(<< >>), Object |-> "", Created |-> 0, Model |-> "",
     SystemFingerprint |-> "", Choices |-> << >>]

initialChunk(id_, created_, model) ==
    [ID |-> id_, Object |-> "chat.completion.chunk", Created |-> created_,
     Model |-> model, SystemFingerprint |-> SystemFingerprint,
     Choices |-> <<[Index |-> 0,
                    Delta |-> [Role |-> "assistant", Content |-> << >>],
                    LogProbs |-> "nil", FinishReason |-> ""]>>]

\* the initial chunk's delta copied into the content chunk
contentChunkWithRole(id_, created_, model, content) ==
    [ID |-> id_, Object |-> "chat.completion.chunk", Created |-> created_,
     Model |-> model, SystemFingerprint |-> SystemFingerprint,
     Choices |-> <<[Index |-> 0,
                    Delta |-> [Role |-> "assistant", Content |-> content],
                    LogProbs |-> "nil", FinishReason |-> ""]>>]

\* the timestamp taken anew for each content chunk
contentChunkFreshTime(id_, created_, model, content) ==
    [ID |-> id_, Object |-> "chat.completion.chunk", Created |-> Unix(now),
     Model |-> model, SystemFingerprint |-> SystemFingerprint,
     Choices |-> <<[Index |-> 0,
                    Delta |-> [Role |-> "", Content |-> content],
                    LogProbs |-> "nil", FinishReason |-> ""]>>]

contentChunk(id_, created_, model, content) ==
    [ID |-> id_, Object |-> "chat.completion.chunk", Created |-> created_,
     Model |-> model, SystemFingerprint |-> SystemFingerprint,
     Choices |-> <<[Index |-> 0,
                    Delta |-> [Role |-> "", Content |-> content],
                    LogProbs |-> "nil", FinishReason |-> ""]>>]

finalChunk(id_, created_, model) ==
    [ID |-> id_, Object |-> "chat.completion.chunk", Created |-> created_,
     Model |-> model, SystemFingerprint |-> SystemFingerprint,
     Choices |-> <<[Index |-> 0,
                    Delta |-> [Role |-> "", Content |-> << >>],
                    LogProbs |-> "nil", FinishReason |-> "stop"]>>]

\* one character per frame where the code takes two
ContentAtOne(rs, k) == RunesToString(SubSeq(rs, k + 1, k + 1))

\* the content of the frame at position k of rs (k counted from 0)
\* the slice taken over the encoded bytes instead of the code points
ContentAtBytes(rs, k) ==
    LET bs == RunesToString(rs)
    IN  IF k + 1 < Len(bs)
        THEN SubSeq(bs, k + 1, k + 2)
        ELSE SubSeq(bs, k + 1, Len(bs))

\* lines 185-191: string(runes[i:i+2]), or string(runes[i:]) at the end
ContentAt(rs, k) ==
    IF k + 1 < Len(rs)
    THEN RunesToString(SubSeq(rs, k + 1, k + 2))
    ELSE RunesToString(SubSeq(rs, k + 1, Len(rs)))

\* the loop stepping by one
NextIndexByOne(k) == k + 1

\* the loop's step
NextIndex(k) == k + 2

EmptyObject == [x \in {} |-> x]

\* DeltaMessage: both fields are omitempty
DeltaJSON(d) ==
    (IF d.Role # "" THEN "role" :> d.Role ELSE EmptyObject) @@
    (IF Len(d.Content) # 0 THEN "content" :> d.Content ELSE EmptyObject)

\* a choice of a chunk: finish_reason is omitempty
ChoiceJSON(c) ==
    ("index" :> c.Index) @@ ("delta" :> DeltaJSON(c.Delta)) @@
    ("logprobs" :> "null") @@
    (IF c.FinishReason # "" THEN "finish_reason" :> c.FinishReason
     ELSE EmptyObject)

\* toJSON(chunk) of a ChatCompletionChunk
toJSON(c) ==
    [id |-> c.ID, object |-> c.Object, created |-> c.Created,
     model |-> c.Model, system_fingerprint |-> c.SystemFingerprint,
     choices |-> [k \in DOMAIN c.Choices |-> ChoiceJSON(c.Choices[k])]]

\* "data: " + payload + "\n\n"
DataFrame(payload) == [kind |-> "data", payload |-> payload]

\* the literal "data: [DONE]\n\n"
Terminator == DataFrame([literal |-> "[DONE]"])

\* the message cut to its first two bytes
EnvelopeCut(id_, created_, model, content) ==
    [kind |-> "json",
     payload |->
        [id |-> id_, object |-> "chat.completion", created |-> created_,
         model |-> model,
         choices |-> <<[index |-> 0,
                        message |-> [role |-> "assistant",
                                     content |-> SubSeq(content, 1, 2)]]>>]]

\* the ChatCompletionResponse of handleNonStreamingResponse, encoded
Envelope(id_, created_, model, content) ==
    [kind |-> "json",
     payload |->
        [id |-> id_, object |-> "chat.completion", created |-> created_,
         model |-> model,
         choices |-> <<[index |-> 0,
                        message |-> [role |-> "assistant",
                                     content |-> content]]>>]]

---------------------------------------------------------------------------
(* The state before a request arrives *)

\* the locals of a request context that has not been given a request
IdleContext ==
    [pc |-> "idle",
     r |-> [Path |-> "", Method |-> "", ContentEncoding |-> "",
            Body |-> [framing |-> "identity",
                      json |-> [valid |-> FALSE, model |-> "", stream |-> FALSE]]],
     w |-> NewResponseWriter(FALSE), trace |-> << >>, req |-> ZeroRequest,
     response |-> << >>, id |-> NewId(<< >>), created |-> 0, runes |-> << >>,
     i |-> 0, chunk |-> ZeroChunk, ret |-> ""]

Init ==
    /\ pc = "idle"
    /\ r = [Path |-> "", Method |-> "", ContentEncoding |-> "",
            Body |-> [framing |-> "identity",
                      json |-> [valid |-> FALSE, model |-> "", stream |-> FALSE]]]
    /\ w = NewResponseWriter(FALSE)
    /\ now = StartTime
    /\ draws = << >>
    /\ trace = << >>
    /\ req = ZeroRequest
    /\ response = << >>
    /\ id = NewId(<< >>)
    /\ created = 0
    /\ runes = << >>
    /\ i = 0
    /\ chunk = ZeroChunk
    /\ ret = ""
    /\ parked = IdleContext

\* the handler main registers for a path
HandlerOf(path) ==
    CASE path = "/v1/chat/completions" -> "handleChatCompletion"
      [] path = "/rand_sleep/v1/chat/completions" -> "handleRandomSleep"
      [] path = "/rand_fail/v1/chat/completions" -> "handleRandomFail"
      [] path = "/rand_all/v1/chat/completions" -> "handleRandom"

\* the requests a client may send
Requests ==
    [Path : Routes, Method : Methods, ContentEncoding : Encodings, Body : Bodies]

\* the server accepts one of the requests and calls the handler of its path
DispatchOf(requests, flushers) ==
    /\ pc = "idle"
    /\ \E rq \in requests, flusher \in flushers :
          /\ r' = rq
          /\ w' = NewResponseWriter(flusher)
          /\ pc' = HandlerOf(rq.Path)
          /\ trace' = Append(trace, Event("call", HandlerOf(rq.Path), 0))
    /\ UNCHANGED <<now, draws, req, response, id, created, runes, i, chunk, ret, parked>>

DispatchTo(paths) == DispatchOf({rq \in Requests : rq.Path \in paths}, BOOLEAN)

Dispatch == DispatchOf(Requests, BOOLEAN)

\* time.Sleep(d ms): the clock moves on by d
Sleep(d) ==
    /\ now' = now + d
    /\ trace' = Append(trace, Event("sleep", "", d))

\* the delay drawn from 1..5000
handleRandomSleepInclusive ==
    /\ pc = "handleRandomSleep"
    /\ \E d \in {x + 1 : x \in Intn(MaxDelay)} :
          /\ now' = now + d
          /\ trace' = trace \o <<Event("sleep", "", d),
                                 Event("call", "handleChatCompletion", 0)>>
    /\ pc' = "handleChatCompletion"
    /\ UNCHANGED <<r, w, draws, req, response, id, created, runes, i, chunk, ret, parked>>

handleRandomSleep ==
    /\ pc = "handleRandomSleep"
    /\ \E d \in Intn(MaxDelay) :
          /\ now' = now + d
          /\ trace' = trace \o <<Event("sleep", "", d),
                                 Event("call", "handleChatCompletion", 0)>>
    /\ pc' = "handleChatCompletion"
    /\ UNCHANGED <<r, w, draws, req, response, id, created, runes, i, chunk, ret, parked>>

\* a draw one too many counts as a failure
ShouldFailUpTo(d) == d <= FailBelow

\* rand.Intn(10) < 5 in handleRandomFail
ShouldFail(d) == d < FailBelow

\* the return after http.Error left out: the base handler runs all the same
handleRandomFailNoReturn ==
    /\ pc = "handleRandomFail"
    /\ \E d \in Intn(FailRange) :
          /\ draws' = Append(draws, d)
          /\ IF ShouldFail(d)
             THEN /\ w' = HttpError(w, "Random error", StatusInternalServerError)
                  /\ trace' = trace \o <<Event("error", "Random error",
                                               StatusInternalServerError),
                                         Event("call", "handleChatCompletion", 0)>>
             ELSE /\ w' = w
                  /\ trace' = Append(trace, Event("call", "handleChatCompletion", 0))
    /\ pc' = "handleChatCompletion"
    /\ UNCHANGED <<r, now, req, response, id, created, runes, i, chunk, ret, parked>>

handleRandomFail ==
    /\ pc = "handleRandomFail"
    /\ \E d \in Intn(FailRange) :
          /\ draws' = Append(draws, d)
          /\ IF ShouldFail(d)
             THEN /\ w' = HttpError(w, "Random error", StatusInternalServerError)
                  /\ pc' = "done"
                  /\ trace' = trace \o <<Event("error", "Random error",
                                               StatusInternalServerError),
                                         Event("return", "handleRandomFail", 0)>>
             ELSE /\ w' = w
                  /\ pc' = "handleChatCompletion"
                  /\ trace' = Append(trace, Event("call", "handleChatCompletion", 0))
    /\ UNCHANGED <<r, now, req, response, id, created, runes, i, chunk, ret, parked>>

\* a draw one too many takes the failure branch
TakesFailBranchUpTo(d) == d <= FailBelow

\* rand.Intn(10) < 5 in handleRandom
TakesFailBranch(d) == d < FailBelow

\* the delay slept before the branch is chosen
handleRandomSleepsFirst ==
    /\ pc = "handleRandom"
    /\ \E d \in Intn(FailRange), s \in Intn(MaxDelay) :
          /\ draws' = Append(draws, d)
          /\ now' = now + s
          /\ IF TakesFailBranch(d)
             THEN /\ pc' = "handleRandomFail"
                  /\ trace' = trace \o <<Event("sleep", "", s),
                                         Event("call", "handleRandomFail", 0)>>
             ELSE /\ pc' = "handleChatCompletion"
                  /\ trace' = trace \o <<Event("sleep", "", s),
                                         Event("call", "handleChatCompletion", 0)>>
    /\ UNCHANGED <<r, w, req, response, id, created, runes, i, chunk, ret, parked>>

handleRandom ==
    /\ pc = "handleRandom"
    /\ \E d \in Intn(FailRange) :
          /\ draws' = Append(draws, d)
          /\ IF TakesFailBranch(d)
             THEN /\ pc' = "handleRandomFail"
                  /\ trace' = Append(trace, Event("call", "handleRandomFail", 0))
                  /\ now' = now
             ELSE \E s \in Intn(MaxDelay) :
                  /\ now' = now + s
                  /\ pc' = "handleChatCompletion"
                  /\ trace' = trace \o <<Event("sleep", "", s),
                                         Event("call", "handleChatCompletion", 0)>>
    /\ UNCHANGED <<r, w, req, response, id, created, runes, i, chunk, ret, parked>>

\* r.Method != http.MethodPost
MethodNotPost(m) == m # "POST"

handleChatCompletion ==
    /\ pc = "handleChatCompletion"
    /\ LET gz   == r.ContentEncoding = "gzip"
           zr   == GzipNewReader(r.Body)
           body == IF gz THEN zr.reader ELSE r.Body
           dec  == JsonDecode(body)
           t0   == IF gz THEN Append(trace, Event("gzip.NewReader", "", 0))
                   ELSE trace
           back == Event("return", "handleChatCompletion", 0)
       IN  IF gz /\ zr.err
           THEN /\ w' = HttpError(w, "Failed to decompress request body",
                                  StatusBadRequest)
                /\ trace' = t0 \o <<Event("error", "Failed to decompress request body",
                                          StatusBadRequest), back>>
                /\ pc' = "done"
                /\ UNCHANGED <<r, req>>
           ELSE IF MethodNotPost(r.Method)
           THEN /\ w' = HttpError(w, "Method not allowed", StatusMethodNotAllowed)
                /\ trace' = t0 \o <<Event("error", "Method not allowed",
                                          StatusMethodNotAllowed), back>>
                /\ pc' = "done"
                /\ r' = [r EXCEPT !.Body = body]
                /\ req' = req
           ELSE IF dec.err
           THEN /\ w' = HttpError(w, "Invalid request body", StatusBadRequest)
                /\ trace' = t0 \o <<Event("json.Decode", "", 0),
                                    Event("error", "Invalid request body",
                                          StatusBadRequest), back>>
                /\ pc' = "done"
                /\ r' = [r EXCEPT !.Body = body]
                /\ req' = req
           ELSE /\ w' = w
                /\ r' = [r EXCEPT !.Body = body]
                /\ req' = dec.req
                /\ pc' = IF dec.req.Stream THEN "handleStreamingResponse"
                         ELSE "handleNonStreamingResponse"
                /\ trace' = t0 \o <<Event("json.Decode", "", 0),
                                    Event("log", "handleChatCompletion", 0),
                                    Event("call",
                                          IF dec.req.Stream
                                          THEN "handleStreamingResponse"
                                          ELSE "handleNonStreamingResponse", 0)>>
    /\ UNCHANGED <<now, draws, response, id, created, runes, i, chunk, ret, parked>>

handleNonStreamingResponse ==
    /\ pc = "handleNonStreamingResponse"
    /\ \E s \in randomString(IdLength) :
          LET data == Envelope(NewId(s), Unix(now), req.Model,
                               generateResponse(req.Messages))
              h    == HeaderSet(w, "Content-Type", "application/json")
          IN  /\ w' = Write(h, data)
              /\ trace' = trace \o <<Event("write", "envelope", Len(w.body) + 1),
                                     Event("return", "handleNonStreamingResponse", 0)>>
    /\ pc' = "done"
    /\ UNCHANGED <<r, now, draws, req, response, id, created, runes, i, chunk, ret, parked>>

---------------------------------------------------------------------------
(* handleStreamingResponse and writeChunk, step by step *)

\* lines 149-181: the headers, the reply, id and created, the initial chunk
StreamStartWith(replies) ==
    /\ pc = "handleStreamingResponse"
    /\ \E reply \in replies, s \in randomString(IdLength) :
          /\ response' = reply
          /\ id' = NewId(s)
          /\ created' = Unix(now)
          /\ chunk' = initialChunk(NewId(s), Unix(now), req.Model)
    /\ w' = HeaderSet(HeaderSet(HeaderSet(w, "Content-Type", "text/event-stream"),
                                "Cache-Control", "no-cache"),
                      "Connection", "keep-alive")
    /\ pc' = "writeChunk"
    /\ ret' = "runes"
    /\ UNCHANGED <<r, now, draws, trace, req, runes, i, parked>>

StreamStart == StreamStartWith(Replies)

\* a frame whose write failed is written once more
WriteChunkRetriesOnce ==
    /\ pc = "writeChunk"
    /\ w' = Write(w, DataFrame(toJSON(chunk)))
    /\ trace' = trace \o <<Event("write", "chunk", Len(w.body) + 1),
                           Event("log", "writeChunk", 0)>>
    /\ pc' = IF w.closed /\ (w.dropped = << >>
                              \/ w.dropped[Len(w.dropped)] # DataFrame(toJSON(chunk)))
             THEN "writeChunk"
             ELSE "flush"
    /\ UNCHANGED <<r, now, draws, req, response, id, created, runes, i, chunk, ret, parked>>

\* writeChunk, lines 247-249: the frame is written and logged
WriteChunk ==
    /\ pc = "writeChunk"
    /\ w' = Write(w, DataFrame(toJSON(chunk)))
    /\ trace' = trace \o <<Event("write", "chunk", Len(w.body) + 1),
                           Event("log", "writeChunk", 0)>>
    /\ pc' = "flush"
    /\ UNCHANGED <<r, now, draws, req, response, id, created, runes, i, chunk, ret, parked>>

\* writeChunk, lines 250-253: the flush, when w is an http.Flusher; return
FlushChunk ==
    /\ pc = "flush"
    /\ IF w.flusher
       THEN /\ w' = Flush(w)
            /\ trace' = Append(trace, Event("flush", "", Len(w.body)))
       ELSE UNCHANGED <<w, trace>>
    /\ pc' = ret
    /\ UNCHANGED <<r, now, draws, req, response, id, created, runes, i, chunk, ret, parked>>

\* line 184 and the loop's initialisation
StreamRunes ==
    /\ pc = "runes"
    /\ runes' = StringToRunes(response)
    /\ i' = 0
    /\ pc' = "loop"
    /\ UNCHANGED <<r, w, now, draws, trace, req, response, id, created, chunk, ret, parked>>

\* the loop's exit leaving out the final chunk
StreamLoopSkipsFinal ==
    /\ pc = "loop"
    /\ IF i < Len(runes)
       THEN /\ chunk' = contentChunk(id, created, req.Model, ContentAt(runes, i))
            /\ pc' = "writeChunk"
            /\ ret' = "sleep"
       ELSE /\ pc' = "terminator"
            /\ UNCHANGED <<chunk, ret>>
    /\ UNCHANGED <<r, w, now, draws, trace, req, response, id, created, runes, i, parked>>

\* lines 185-216: the loop's test and one content chunk
StreamLoop ==
    /\ pc = "loop"
    /\ IF i < Len(runes)
       THEN /\ chunk' = contentChunk(id, created, req.Model, ContentAt(runes, i))
            /\ pc' = "writeChunk"
            /\ ret' = "sleep"
       ELSE /\ pc' = "final"
            /\ UNCHANGED <<chunk, ret>>
    /\ UNCHANGED <<r, w, now, draws, trace, req, response, id, created, runes, i, parked>>

\* the sleep left out after the last content chunk
StreamSleepBetweenOnly ==
    /\ pc = "sleep"
    /\ IF i + 2 < Len(runes)
       THEN Sleep(StreamResponseInterval)
       ELSE UNCHANGED <<now, trace>>
    /\ i' = NextIndex(i)
    /\ pc' = "loop"
    /\ UNCHANGED <<r, w, draws, req, response, id, created, runes, chunk, ret, parked>>

\* line 217 and the loop's increment
StreamSleep ==
    /\ pc = "sleep"
    /\ Sleep(StreamResponseInterval)
    /\ i' = NextIndex(i)
    /\ pc' = "loop"
    /\ UNCHANGED <<r, w, draws, req, response, id, created, runes, chunk, ret, parked>>

\* lines 221-242: the final chunk
StreamFinal ==
    /\ pc = "final"
    /\ chunk' = finalChunk(id, created, req.Model)
    /\ pc' = "writeChunk"
    /\ ret' = "terminator"
    /\ UNCHANGED <<r, w, now, draws, trace, req, response, id, created, runes, i, parked>>

\* lines 243-244: the terminator is written and the handler returns
StreamTerminator ==
    /\ pc = "terminator"
    /\ w' = Write(w, Terminator)
    /\ trace' = trace \o <<Event("write", "terminator", Len(w.body) + 1),
                           Event("return", "handleStreamingResponse", 0)>>
    /\ pc' = "done"
    /\ UNCHANGED <<r, now, draws, req, response, id, created, runes, i, chunk, ret, parked>>

Next ==
    \/ Dispatch
    \/ handleRandomSleep
    \/ handleRandomFail
    \/ handleRandom
    \/ handleChatCompletion
    \/ handleNonStreamingResponse
    \/ StreamStart
    \/ WriteChunk
    \/ FlushChunk
    \/ StreamRunes
    \/ StreamLoop
    \/ StreamSleep
    \/ StreamFinal
    \/ StreamTerminator

Spec == Init /\ [][Next]_vars

---------------------------------------------------------------------------
(* A request on the direct route whose client may go away *)

\* the client closes the connection while the handler runs
CloseConnection ==
    /\ pc \notin {"idle", "done"}
    /\ ~w.closed
    /\ w' = [w EXCEPT !.closed = TRUE]
    /\ UNCHANGED <<pc, r, now, draws, trace, req, response, id, created, runes,
                   i, chunk, ret, parked>>

\* the steps of the handler's goroutine
HandlerStep ==
    \/ handleChatCompletion
    \/ handleNonStreamingResponse
    \/ StreamStart
    \/ WriteChunk
    \/ FlushChunk
    \/ StreamRunes
    \/ StreamLoop
    \/ StreamSleep
    \/ StreamFinal
    \/ StreamTerminator

NextClose ==
    \/ DispatchTo({"/v1/chat/completions"})
    \/ HandlerStep
    \/ CloseConnection

\* the goroutine of a request keeps running once started
SpecClose == Init /\ [][NextClose]_vars /\ WF_vars(HandlerStep)

---------------------------------------------------------------------------
(* Two request contexts: net/http runs the handler of each connection in a
   goroutine of its own.  The variables of the handlers are those of the
   context that is running; those of the other one are in parked.  The
   clock and the random source belong to the process. *)

\* the locals of the running context
Local ==
    [pc |-> pc, r |-> r, w |-> w, trace |-> trace, req |-> req,
     response |-> response, id |-> id, created |-> created, runes |-> runes,
     i |-> i, chunk |-> chunk, ret |-> ret]

\* the position i taken over from the context that stops running
SwitchSharingPosition ==
    /\ parked.pc # "done"
    /\ parked' = Local
    /\ pc' = parked.pc
    /\ r' = parked.r
    /\ w' = parked.w
    /\ trace' = parked.trace
    /\ req' = parked.req
    /\ response' = parked.response
    /\ id' = parked.id
    /\ created' = parked.created
    /\ runes' = parked.runes
    /\ chunk' = parked.chunk
    /\ ret' = parked.ret
    /\ UNCHANGED <<now, draws, i>>

\* the scheduler runs the other context, if it has something to do
Switch ==
    /\ parked.pc # "done"
    /\ parked' = Local
    /\ pc' = parked.pc
    /\ r' = parked.r
    /\ w' = parked.w
    /\ trace' = parked.trace
    /\ req' = parked.req
    /\ response' = parked.response
    /\ id' = parked.id
    /\ created' = parked.created
    /\ runes' = parked.runes
    /\ i' = parked.i
    /\ chunk' = parked.chunk
    /\ ret' = parked.ret
    /\ UNCHANGED <<now, draws>>

DirectPath == "/v1/chat/completions"

FailPath == "/rand_fail/v1/chat/completions"

\* the requests of the two contexts: a streamed one on the direct route and
\* behind the failure wrapper, one with a wrong method, one that does not
\* decode; at most one of the two goes through the failure wrapper
ConcRequests ==
    LET body(v) == [framing |-> "identity",
                    json |-> IF v THEN [valid |-> TRUE, model |-> "gpt-4", stream |-> TRUE]
                             ELSE [valid |-> FALSE, model |-> "", stream |-> FALSE]]
        rq(path, method, v) == [Path |-> path, Method |-> method,
                                ContentEncoding |-> "", Body |-> body(v)]
    IN  {rq(DirectPath, "POST", TRUE), rq(DirectPath, "GET", TRUE),
         rq(DirectPath, "POST", FALSE)}
        \cup (IF parked.r.Path = FailPath THEN {} ELSE {rq(FailPath, "POST", TRUE)})

\* the replies of the two contexts: an even and an odd number of characters
ConcReplies ==
    {RunesToString(Take(StringToRunes(UnicodeText), n)) : n \in (ConcLen - 1)..ConcLen}

\* a step of the running context
ContextStep ==
    \/ DispatchOf(ConcRequests, {TRUE})
    \/ handleRandomFail
    \/ handleChatCompletion
    \/ StreamStartWith(ConcReplies)
    \/ WriteChunk
    \/ FlushChunk
    \/ StreamRunes
    \/ StreamLoop
    \/ StreamSleep
    \/ StreamFinal
    \/ StreamTerminator

NextConc ==
    \/ ContextStep
    \/ Switch

\* each goroutine keeps running, and the scheduler leaves none out
SpecConc == Init /\ [][NextConc]_vars /\ WF_vars(ContextStep) /\ WF_vars(Switch)

---------------------------------------------------------------------------
(* What a client reads off the response body *)

\* the request was decoded with stream = true
Streamed == req.Stream

\* number of characters of a text: the bytes that start a character
CharLen(s) == Cardinality({k \in DOMAIN s : ~IsCont(s[k])})

CeilHalf(n) == (n + 1) \div 2

IsData(f) == f.kind = "data"

IsTerminator(f) == IsData(f) /\ "literal" \in DOMAIN f.payload

\* a structured frame: data: <json of a chunk>
IsChunk(f) == IsData(f) /\ "choices" \in DOMAIN f.payload

Choice(f) == f.payload.choices[1]

Delta(f) == Choice(f).delta

HasRole(f) == IsChunk(f) /\ "role" \in DOMAIN Delta(f)

HasContent(f) == IsChunk(f) /\ "content" \in DOMAIN Delta(f)

HasFinish(f) == IsChunk(f) /\ "finish_reason" \in DOMAIN Choice(f)

\* delta.content as a client reads it: empty when the key is absent
ContentOf(f) == IF HasContent(f) THEN Delta(f).content ELSE << >>

FrameClass(f) ==
    IF ~IsData(f) THEN "other"
    ELSE IF IsTerminator(f) THEN "terminator"
    ELSE IF HasFinish(f) THEN "terminal"
    ELSE IF HasRole(f) THEN "role"
    ELSE IF HasContent(f) THEN "content"
    ELSE "empty"

Classes(body) == [k \in DOMAIN body |-> FrameClass(body[k])]

Count(body, P(_)) == Cardinality({k \in DOMAIN body : P(body[k])})

\* the delta.content of the first k writes, concatenated
RECURSIVE ConcatUpTo(_, _)
ConcatUpTo(body, k) ==
    IF k = 0 THEN << >> ELSE ConcatUpTo(body, k - 1) \o ContentOf(body[k])

ConcatContent(body) == ConcatUpTo(body, Len(body))

IsPrefix(a, b) == Len(a) <= Len(b) /\ a = SubSeq(b, 1, Len(a))

\* the order of writes of a streamed response for a reply of n characters
ExpectedOrder(n) ==
    <<"role">> \o [k \in 1..CeilHalf(n) |-> "content"] \o <<"terminal", "terminator">>

Called(name) == \E k \in DOMAIN trace : trace[k].op = "call" /\ trace[k].name = name

CallCount(name) ==
    Cardinality({k \in DOMAIN trace : trace[k].op = "call" /\ trace[k].name = name})

Did(op) == \E k \in DOMAIN trace : trace[k].op = op

---------------------------------------------------------------------------
(* Claims *)

\* the newest write of a streamed response is the one the order asks for
\* at its place, and a content frame continues the reply where the frames
\* before it stopped
C1_OrderInv ==
    Streamed =>
        \E want \in {ExpectedOrder(CharLen(response))}, n \in {Len(w.body)} :
            /\ n <= Len(want)
            /\ Classes(w.body) = SubSeq(want, 1, n)
            /\ n > 0 =>
                   \E before \in {Len(ConcatUpTo(w.body, n - 1))} :
                       ContentOf(w.body[n])
                           = SubSeq(response, before + 1,
                                    before + Len(ContentOf(w.body[n])))
            /\ (pc = "done") <=> (n = Len(want))

\* C1: in a streamed response the writes are, in this order, one role frame,
\* the content frames left to right over the reply, one terminal frame and
\* the terminator; what is written stays written; the handler is done exactly
\* when the terminator is written, and writes nothing after it.
C1_StreamOrder ==
    /\ []C1_OrderInv
    /\ [][/\ IsPrefix(w.body, w'.body)
           /\ pc = "done" => w' = w]_vars

C1_Witness ==
    /\ Streamed
    /\ pc = "done"
    /\ response = FixedReply
    /\ Len(w.body) = 37

\* C2: a streamed response for a reply of L characters has ceil(L/2)
\* content-bearing frames, one role-only frame and one terminal frame,
\* ceil(L/2) + 2 structured frames in all before the terminator.
C2_FrameCount ==
    (Streamed /\ pc = "done") =>
        LET n == CharLen(response)
            RoleOnly(f) == HasRole(f) /\ ~HasContent(f)
        IN  /\ Count(w.body, HasContent) = CeilHalf(n)
            /\ Count(w.body, RoleOnly) = 1
            /\ Count(w.body, HasFinish) = 1
            /\ Count(w.body, IsChunk) = CeilHalf(n) + 2
            /\ IsTerminator(w.body[Len(w.body)])
            /\ Count(w.body, IsTerminator) = 1

C2_Witness ==
    /\ Streamed
    /\ pc = "done"
    /\ CharLen(response) = 3
    /\ Count(w.body, HasContent) = 2

\* C3: the delta.content of the frames written so far, concatenated in order,
\* is always a prefix of the reply, and is the whole reply once the content
\* frames are out.
C3_RoundTrip ==
    Streamed =>
        /\ IsPrefix(ConcatContent(w.body), response)
        /\ (pc \in {"final", "terminator", "done"} \/ Count(w.body, HasFinish) > 0)
               => ConcatContent(w.body) = response

C3_Witness ==
    /\ Streamed
    /\ pc = "done"
    /\ response = UnicodeText
    /\ ConcatContent(w.body) = UnicodeText

\* C4: the first frame has the role "assistant" and no content; the last
\* structured frame has no content, no role and finish_reason "stop"; the
\* frames between have content, no role and no finish_reason.
C4_FrameShape ==
    Streamed =>
        LET chunks == {k \in DOMAIN w.body : IsChunk(w.body[k])}
            ended == \/ pc \in {"terminator", "done"}
                     \/ pc = "flush" /\ ret = "terminator"
        IN  /\ \A k \in chunks :
                LET f == w.body[k]
                    first == k = 1
                    last == ended /\ \A j \in chunks : j <= k
                IN  /\ first =>
                           /\ HasRole(f) /\ Delta(f).role = "assistant"
                           /\ ~HasContent(f) /\ ~HasFinish(f)
                    /\ last =>
                           /\ ~HasRole(f) /\ ~HasContent(f)
                           /\ HasFinish(f) /\ Choice(f).finish_reason = "stop"
                    /\ (~first /\ ~last) =>
                           /\ HasContent(f) /\ Len(Delta(f).content) > 0
                           /\ ~HasRole(f) /\ ~HasFinish(f)
            /\ Count(w.body, HasRole) <= 1
            /\ Count(w.body, HasFinish) <= 1
            /\ ended => Count(w.body, HasRole) = 1 /\ Count(w.body, HasFinish) = 1

C4_Witness ==
    /\ Streamed
    /\ pc = "done"
    /\ Count(w.body, HasContent) = 2
    /\ Count(w.body, HasRole) = 1
    /\ Count(w.body, HasFinish) = 1

\* C5: all structured frames of a streamed response carry the id and the
\* created timestamp fixed before the first frame, the request's model and
\* the constant fingerprint.
C5_SharedFields ==
    Streamed =>
        \A k \in DOMAIN w.body :
            IsChunk(w.body[k]) =>
                /\ w.body[k].payload.id = w.body[1].payload.id
                /\ w.body[k].payload.created = w.body[1].payload.created
                /\ w.body[k].payload.id = id
                /\ w.body[k].payload.created = created
                /\ w.body[k].payload.model = r.Body.json.model
                /\ w.body[k].payload.system_fingerprint = "fp_44709d6fcb"

\* three frames are out and the clock's second has changed since the first
C5_Witness ==
    /\ Streamed
    /\ Count(w.body, IsChunk) >= 3
    /\ Unix(now) # created
    /\ r.Body.json.model = "gpt-4"

\* C6: with a flushing transport, every frame written to a streamed response,
\* the terminator included, has been flushed by the handler before its next
\* write, sleep or return.
C6_EveryFrameFlushed ==
    (Streamed /\ w.flusher /\ pc # "flush") => w.flushed = Len(w.body)

\* C7: a request with a method other than POST ends with 405, whatever the
\* route, the body, the Content-Encoding header and the draws.
C7_NonPostIs405 ==
    (pc = "done" /\ r.Method # "POST") => w.status = 405

\* C8: for a non-POST request neither decompression nor decoding is
\* attempted, and no 400 is produced.
C8_MethodCheckFirst ==
    (pc # "idle" /\ r.Method # "POST") =>
        /\ ~Did("gzip.NewReader")
        /\ ~Did("json.Decode")
        /\ w.status # 400

\* the bytes of the request's body do not decode: the header says gzip and
\* the body is no intact gzip stream, or the header does not and the body is
\* compressed, or the document is no ChatCompletionRequest
BadBody(rq) ==
    \/ rq.ContentEncoding = "gzip" /\ rq.Body.framing # "gzip"
    \/ rq.ContentEncoding # "gzip" /\ rq.Body.framing # "identity"
    \/ ~rq.Body.json.valid

C9_Inv ==
    w.status = 400 =>
        /\ pc = "done"
        /\ Len(w.body) = 1
        /\ w.body[1].kind = "text"
        /\ ~Called("handleStreamingResponse")
        /\ ~Called("handleNonStreamingResponse")
        /\ ~Did("write")

C9_Step ==
    (pc = "handleChatCompletion" /\ r.Method = "POST" /\ BadBody(r)) =>
        /\ pc' = "done"
        /\ w'.status = 400
        /\ Len(w'.body) = 1
        /\ w'.body[1].kind = "text"

\* C9: a POST whose body fails decompression or does not decode gets 400 and
\* nothing else: one plain-text message, no frame, no terminator, no
\* envelope, and neither responder is called.
C9_BadBodyIs400 == []C9_Inv /\ [][C9_Step]_vars

\* the gzip header was read, the stream behind it was damaged
C9_Witness ==
    /\ pc = "done"
    /\ r.Method = "POST"
    /\ r.ContentEncoding = "gzip"
    /\ r.Body.framing = "unreadable"
    /\ r.Body.json.valid
    /\ w.status = 400

\* C10: on the random-failure route one draw decides: on 0..4 the response is
\* 500 at once and the base handler is not called; on 5..9 the base handler
\* is called once, with the request and a response writer nothing was done
\* to, and no 500 follows.
C10_RandomFail ==
    (r.Path = "/rand_fail/v1/chat/completions" /\ pc # "handleRandomFail") =>
        /\ Len(draws) = 1
        /\ draws[1] \in 0..9
        /\ IF draws[1] \in 0..4
           THEN /\ pc = "done"
                /\ w.status = 500
                /\ Len(w.body) = 1
                /\ w.body[1].kind = "text"
                /\ CallCount("handleChatCompletion") = 0
                /\ ~Did("gzip.NewReader") /\ ~Did("json.Decode") /\ ~Did("write")
           ELSE /\ CallCount("handleChatCompletion") = 1
                /\ w.status # 500
                /\ ~Did("sleep") \/ Streamed
                /\ pc = "handleChatCompletion" =>
                       /\ w = NewResponseWriter(w.flusher)
                       /\ req = ZeroRequest
                       /\ now = StartTime

C10_Witness ==
    /\ r.Path = "/rand_fail/v1/chat/completions"
    /\ draws = <<4>>
    /\ pc = "done"
    /\ w.status = 500

---------------------------------------------------------------------------
(* The wrappers and the outcome of a request *)

\* where in the trace the streaming responder is called (past the end when
\* it is not)
StreamCallIndex ==
    IF Called("handleStreamingResponse")
    THEN CHOOSE k \in DOMAIN trace :
             trace[k].op = "call" /\ trace[k].name = "handleStreamingResponse"
    ELSE Len(trace) + 1

\* the sleeps of the wrappers: those before the streaming responder is called
DelaySleeps == {k \in 1..(StreamCallIndex - 1) : trace[k].op = "sleep"}

\* the sleeps of the streaming responder
IntervalSleeps == {k \in (StreamCallIndex + 1)..Len(trace) : trace[k].op = "sleep"}

IsErrorStatus(st) == st \in {400, 405, 500}

\* C11: on the combined route a request takes one of two branches: the
\* failure wrapper with no delay, or one delay and then the base handler with
\* no injected 500.  A request answered 500 was not delayed; a delayed
\* request is not answered 500.
C11_CombinedBranches ==
    (r.Path = "/rand_all/v1/chat/completions" /\ pc # "handleRandom") =>
        /\ Len(draws) >= 1
        /\ IF draws[1] \in 0..4
           THEN /\ CallCount("handleRandomFail") = 1
                /\ DelaySleeps = {}
                /\ pc # "handleRandomFail" => Len(draws) = 2
                /\ w.status = 500 <=> (Len(draws) = 2 /\ draws[2] \in 0..4)
                /\ pc \in {"handleRandomFail", "handleChatCompletion"}
                       => now = StartTime
           ELSE /\ draws[1] \in 5..9
                /\ Len(draws) = 1
                /\ CallCount("handleRandomFail") = 0
                /\ Cardinality(DelaySleeps) = 1
                /\ trace[2].op = "sleep"
                /\ trace[3] = Event("call", "handleChatCompletion", 0)
                /\ w.status # 500
        /\ w.status = 500 => DelaySleeps = {}
        /\ DelaySleeps # {} => w.status # 500

\* delayed by 4999 ms, then streamed
C11_Witness ==
    /\ r.Path = "/rand_all/v1/chat/completions"
    /\ pc = "done"
    /\ Streamed
    /\ draws = <<5>>
    /\ trace[2] = Event("sleep", "", 4999)
    /\ w.status = 200

\* C12: a request decoded with stream = false gets one JSON envelope with one
\* choice, index 0, whose message is the whole reply, in one write; no data
\* frame, no terminator and no sleep of the streaming responder.
C12_NonStreaming ==
    Called("handleNonStreamingResponse") =>
        /\ ~req.Stream
        /\ r.Body.json.valid /\ ~r.Body.json.stream
        /\ ~Called("handleStreamingResponse")
        /\ IntervalSleeps = {}
        /\ ~Did("flush")
        /\ IF pc = "done"
           THEN /\ w.status = 200
                /\ Len(w.body) = 1
                /\ w.body[1].kind = "json"
                /\ Len(w.body[1].payload.choices) = 1
                /\ w.body[1].payload.choices[1].index = 0
                /\ w.body[1].payload.choices[1].message.role = "assistant"
                /\ w.body[1].payload.choices[1].message.content = FixedReply
                /\ w.body[1].payload.model = r.Body.json.model
                /\ Cardinality({k \in DOMAIN trace : trace[k].op = "write"}) = 1
           ELSE /\ pc = "handleNonStreamingResponse"
                /\ w.body = << >>
                /\ w.status = 0

C12_Witness ==
    /\ Called("handleNonStreamingResponse")
    /\ pc = "done"
    /\ r.Path = "/v1/chat/completions"
    /\ Len(w.body) = 1
    /\ w.body[1].payload.choices[1].message.content = FixedReply

\* the handlers, each called at most once, and at most one error answered
C13_Inv ==
    /\ \A h \in {"handleChatCompletion", "handleRandomSleep", "handleRandomFail",
                 "handleRandom", "handleStreamingResponse",
                 "handleNonStreamingResponse"} : CallCount(h) <= 1
    /\ Cardinality({k \in DOMAIN trace : trace[k].op = "error"}) <= 1
    /\ ~(Called("handleStreamingResponse") /\ Called("handleNonStreamingResponse"))
    /\ IsErrorStatus(w.status) =>
           /\ pc = "done"
           /\ Len(w.body) = 1
           /\ w.body[1].kind = "text"
           /\ Did("error")
           /\ ~Called("handleStreamingResponse")
           /\ ~Called("handleNonStreamingResponse")
    /\ pc = "done" =>
           \/ IsErrorStatus(w.status)
           \/ /\ w.status = 200
              /\ Called("handleNonStreamingResponse")
              /\ Len(w.body) = 1 /\ w.body[1].kind = "json"
              /\ ~Did("error")
           \/ /\ w.status = 200
              /\ Called("handleStreamingResponse")
              /\ \A k \in DOMAIN w.body : IsData(w.body[k])
              /\ ~Did("error")

C13_Step ==
    /\ IsErrorStatus(w.status) => (w' = w /\ pc' = pc /\ trace' = trace)
    /\ pc # "idle" => (pc' # "idle" /\ r'.Path = r.Path /\ r'.Method = r.Method)

\* C13: a request has exactly one outcome among 405, 400, 500, the envelope
\* and the frame stream; once an error status is written nothing more is
\* written and no responder runs; every handler is called at most once and
\* the request is not dispatched again.
C13_ErrorsTerminal == []C13_Inv /\ [][C13_Step]_vars

\* the failure branch of the combined route, failed
C13_Witness ==
    /\ r.Path = "/rand_all/v1/chat/completions"
    /\ pc = "done"
    /\ w.status = 500
    /\ Len(draws) = 2
    /\ CallCount("handleChatCompletion") = 0

\* C15: on the random-delay route a request sleeps once, for 0 <= d < 5000
\* ms, before the base handler is called and before anything is written; it
\* is then handed to the base handler as it came, and is never answered 500.
C15_RandomSleep ==
    (r.Path = "/rand_sleep/v1/chat/completions" /\ pc # "handleRandomSleep") =>
        /\ trace[1] = Event("call", "handleRandomSleep", 0)
        /\ trace[2].op = "sleep"
        /\ trace[2].n >= 0 /\ trace[2].n < 5000
        /\ trace[3] = Event("call", "handleChatCompletion", 0)
        /\ DelaySleeps = {2}
        /\ CallCount("handleChatCompletion") = 1
        /\ draws = << >>
        /\ w.status # 500
        /\ pc = "handleChatCompletion" =>
               /\ w = NewResponseWriter(w.flusher)
               /\ req = ZeroRequest
               /\ now = StartTime + trace[2].n

C15_Witness ==
    /\ r.Path = "/rand_sleep/v1/chat/completions"
    /\ pc = "done"
    /\ trace[2] = Event("sleep", "", 4999)
    /\ w.status = 200

\* what became of a request on the combined route once the wrappers are
\* through: answered 500, delayed and handed on, or handed on as it came
CombinedOutcome ==
    IF w.status = 500 THEN "fail"
    ELSE IF DelaySleeps # {} THEN "delayed"
    ELSE "plain"

\* the outcome the two draws of the combined route stand for
OutcomeOfDraws(a, b) ==
    IF TakesFailBranch(a) THEN (IF ShouldFail(b) THEN "fail" ELSE "plain")
    ELSE "delayed"

\* the share of an outcome among the equally likely pairs of draws, in 1/1000
Permille(outcome) ==
    (1000 * Cardinality({p \in Intn(FailRange) \X Intn(FailRange) :
                            OutcomeOfDraws(p[1], p[2]) = outcome}))
        \div (FailRange * FailRange)

CombinedDecided ==
    /\ r.Path = "/rand_all/v1/chat/completions"
    /\ pc \notin {"handleRandom", "handleRandomFail"}

\* C16 as stated: 25% failure, 37.5% delay then success, 37.5% success
\* without delay.
C16_Distribution_Stated ==
    CombinedDecided =>
        Permille(CombinedOutcome)
            = CASE CombinedOutcome = "fail" -> 250
                [] CombinedOutcome = "delayed" -> 375
                [] CombinedOutcome = "plain" -> 375

\* C16 (amended): over the equally likely draws of the combined route, 25%
\* of requests are answered 500, 50% are delayed and handed to the base
\* handler, and 25% are handed to the base handler without delay; the
\* outcome of a request is the one its draws stand for.
C16_Distribution ==
    CombinedDecided =>
        /\ CombinedOutcome
               = OutcomeOfDraws(draws[1], IF Len(draws) >= 2 THEN draws[2] ELSE 0)
        /\ (CombinedOutcome = "delayed") <=> (Len(draws) = 1)
        /\ Permille(CombinedOutcome)
               = CASE CombinedOutcome = "fail" -> 250
                   [] CombinedOutcome = "delayed" -> 500
                   [] CombinedOutcome = "plain" -> 250

C16_Witness ==
    /\ CombinedDecided
    /\ CombinedOutcome = "delayed"
    /\ pc = "done"
    /\ Permille("delayed") = 500

\* the newest write is the content frame of position i
AtContentFrame == Streamed /\ pc \in {"flush", "sleep"} /\ ret = "sleep"

\* the position and the frames of the loop, in code points
C17_Inv ==
    /\ (Streamed /\ pc \in {"loop", "writeChunk", "flush", "sleep", "final",
                             "terminator", "done"} /\ ret # "runes") =>
           \E L \in {Len(runes)}, c \in {Count(w.body, HasContent)} :
               /\ L = CharLen(response)
               /\ i % 2 = 0
               /\ pc = "loop" => i = 2 * c
               /\ (pc = "writeChunk" /\ ret = "sleep") => (i = 2 * c /\ i < L)
               /\ AtContentFrame => (i = 2 * (c - 1) /\ i < L)
               /\ (pc \in {"final", "terminator", "done"} \/ ret = "terminator") =>
                      (i >= L /\ i < L + 2 /\ i = 2 * c)
    /\ AtContentFrame =>
           \E n \in {Len(w.body)} :
           \E pre \in {ConcatUpTo(w.body, n - 1)}, s \in {ContentOf(w.body[n])} :
               /\ FrameClass(w.body[n]) = "content"
               /\ CharLen(pre) = i
               /\ s = SubSeq(response, Len(pre) + 1, Len(pre) + Len(s))
               /\ s # << >>
               /\ ~IsCont(s[1])
               /\ Len(pre) + Len(s) < Len(response)
                      => ~IsCont(response[Len(pre) + Len(s) + 1])
               /\ s = RunesToString(StringToRunes(s))
               /\ CharLen(s) \in {1, 2}
               /\ CharLen(s) = 1 <=> (i + 2 > Len(runes) /\ Len(runes) % 2 = 1)
               /\ CharLen(s) = 1 <=> i + 1 = Len(runes)

\* C17: the position i starts at 0, advances by exactly 2 per content frame
\* and stops when i >= L; every content frame carries exactly two code points
\* of the reply starting at position i, the last one exactly one if and only
\* if L is odd; no content frame is empty or longer than two code points.
C17_Grouping ==
    /\ []C17_Inv
    /\ [][/\ (pc = "runes") => (i' = 0)
          /\ (pc = "sleep") => (i' = i + 2)
          /\ (pc \notin {"runes", "sleep"}) => (i' = i)]_vars

C17_Witness ==
    /\ AtContentFrame
    /\ pc = "sleep"
    /\ Len(runes) = 3
    /\ i = 2
    /\ Len(ContentOf(w.body[2])) = 5
    /\ CharLen(ContentOf(w.body[2])) = 2
    /\ ContentOf(w.body[3]) = <<97>>

\* the write of a structured frame of class c recorded at place k of the trace
IsFrameWrite(k, c) ==
    /\ trace[k].op = "write"
    /\ trace[k].name = "chunk"
    /\ FrameClass(w.body[trace[k].n]) = c

\* the events of one writeChunk: the write, the log and, on a flusher, the flush
ChunkEvents == IF w.flusher THEN 3 ELSE 2

\* the delay of the wrapper, 0 when there was none
DelayOf == IF DelaySleeps = {} THEN 0 ELSE trace[CHOOSE k \in DelaySleeps : TRUE].n

\* the newest events of the trace obey the pacing: a sleep is of 50 ms and
\* comes right after the write, log and flush of a content frame; what comes
\* after a content frame's writeChunk is a sleep, after the role and terminal
\* frames' a write, after a sleep a write, after the terminator the return
C18_Inv ==
    Called("handleStreamingResponse") =>
        \E first \in {StreamCallIndex}, g \in {ChunkEvents}, n \in {Len(trace)} :
            /\ \A k \in (first + 1)..n :
                   k + g + 1 >= n =>
                   /\ trace[k].op = "sleep" =>
                          /\ trace[k].n = StreamResponseInterval
                          /\ k - g > first
                          /\ IsFrameWrite(k - g, "content")
                          /\ trace[k - g + 1] = Event("log", "writeChunk", 0)
                          /\ w.flusher => trace[k - 1] = Event("flush", "", trace[k - g].n)
                          /\ k < n => trace[k + 1].op = "write"
                   /\ (trace[k].op = "write" /\ k + g <= n) =>
                          \E c \in {FrameClass(w.body[trace[k].n])} :
                              /\ c = "content" => trace[k + g].op = "sleep"
                              /\ c \in {"role", "terminal"} => trace[k + g].op = "write"
                   /\ (trace[k].op = "write" /\ trace[k].name = "terminator") =>
                          (k + 1 = n /\ trace[n].op = "return")
            /\ Cardinality(IntervalSleeps)
                   = Count(w.body, HasContent) - (IF AtContentFrame THEN 1 ELSE 0)
            /\ pc = "done" => Cardinality(IntervalSleeps) = CeilHalf(CharLen(response))
            /\ now = StartTime + DelayOf + StreamResponseInterval * Cardinality(IntervalSleeps)

\* C18: in a streamed response exactly one sleep of 50 ms follows each content
\* frame, after the frame's write and flush and before the next frame is
\* written, the last content frame included; no sleep follows the role frame,
\* the terminal frame or the terminator; a finished response has ceil(L/2)
\* such sleeps, and the clock has advanced by 50 ms for each. The trace is
\* only ever appended to, so what holds of its newest events holds of all.
C18_Pacing ==
    /\ []C18_Inv
    /\ [][IsPrefix(trace, trace') /\ IsPrefix(w.body, w'.body)]_vars

C18_Witness ==
    /\ Streamed
    /\ pc = "done"
    /\ w.flusher
    /\ response = FixedReply
    /\ Cardinality(IntervalSleeps) = 34
    /\ now >= StartTime + 34 * StreamResponseInterval

\* the frames the handler has tried to write, those that failed included
Attempts(rw) == rw.body \o rw.dropped

\* every frame is tried once, in the order of the response, whether or not
\* the write succeeds; a finished handler has tried them all and slept
\* after each content frame
C19_Inv ==
    Streamed =>
        \E want \in {ExpectedOrder(CharLen(response))}, a \in {Attempts(w)} :
            /\ Len(a) <= Len(want)
            /\ Classes(a) = SubSeq(want, 1, Len(a))
            /\ IsPrefix(ConcatContent(a), response)
            /\ w.dropped # << >> => w.closed
            /\ pc = "done" =>
                   /\ Len(a) = Len(want)
                   /\ ConcatContent(a) = response
                   /\ i >= Len(runes)
                   /\ Cardinality(IntervalSleeps) = CeilHalf(CharLen(response))

\* C19: when the connection closes mid-stream the streaming handler does not
\* retry, re-emit or resume a frame: each frame is attempted at most once,
\* nothing more reaches the client, the position i never decreases, and the
\* handler still ends, having attempted the remaining frames and sleeps;
\* every streamed request eventually reaches DONE.
C19_NoRetryAndDone ==
    /\ []C19_Inv
    /\ [][/\ i' >= i
          /\ IsPrefix(Attempts(w), Attempts(w'))
          /\ Len(Attempts(w')) <= Len(Attempts(w)) + 1
          /\ w.closed => (w'.closed /\ w'.body = w.body /\ w'.flushed = w.flushed)]_vars
    /\ Streamed ~> (pc = "done")

C19_Witness ==
    /\ Streamed
    /\ pc = "done"
    /\ w.closed
    /\ response = FixedReply
    /\ Len(w.body) = 5
    /\ Len(w.dropped) = 32
    /\ w.flushed = 4

\* the two request contexts
Contexts == {Local, parked}

\* what a context has written is what its own request asks for, as far as
\* the context has got: the frames of its own reply in order, with its own
\* id, creation time and model; the status of its own method and body
AloneOK(c) ==
    /\ c.req.Stream =>
           \E want \in {ExpectedOrder(CharLen(c.response))}, n \in {Len(c.w.body)} :
               /\ n <= Len(want)
               /\ Classes(c.w.body) = SubSeq(want, 1, n)
               /\ IsPrefix(ConcatContent(c.w.body), c.response)
               /\ (c.pc = "done") <=> (n = Len(want))
               /\ c.pc = "done" => ConcatContent(c.w.body) = c.response
               /\ \A k \in 1..n :
                      IsChunk(c.w.body[k]) =>
                          /\ c.w.body[k].payload.id = c.id
                          /\ c.w.body[k].payload.created = c.created
                          /\ c.w.body[k].payload.model = c.r.Body.json.model
               /\ c.w.status \in {0, StatusOK}
               /\ c.r.Method = "POST" /\ c.r.Body.json.stream
    /\ (c.pc = "done" /\ ~c.req.Stream) =>
           /\ Len(c.w.body) = 1
           /\ c.w.body[1].kind = "text"
           /\ c.w.status \in {StatusBadRequest, StatusMethodNotAllowed,
                               StatusInternalServerError}
           /\ c.w.status = StatusInternalServerError => c.r.Path = FailPath
           /\ c.w.status = StatusMethodNotAllowed <=>
                  (c.r.Method # "POST"
                   /\ ~\E k \in DOMAIN c.trace : c.trace[k].op = "error"
                                                  /\ c.trace[k].n = StatusInternalServerError)
           /\ c.w.status = StatusBadRequest =>
                  (c.r.Method = "POST" /\ ~c.r.Body.json.valid)
    /\ c.pc = "idle" => c = IdleContext

\* C14: under every interleaving of two request contexts each streamed
\* response has its own frames in the order it has alone (role, content left
\* to right, terminal, terminator); an error or a sleep of one context does
\* not change the other's outcome nor keep it from finishing; a step of one
\* context leaves the locals of the other as they are: only the random
\* source and the clock are shared.
C14_Independent ==
    /\ [](\A c \in Contexts : AloneOK(c))
    /\ [][\/ parked' = parked
          \/ parked' = Local /\ Local' = parked /\ now' = now /\ draws' = draws]_vars
    /\ <>(pc = "done" /\ parked.pc = "done")

\* both contexts are in the middle of their streams, one having got further
C14_Witness ==
    /\ Streamed
    /\ parked.req.Stream
    /\ pc = "sleep"
    /\ i = 2
    /\ parked.pc = "sleep"
    /\ parked.i = 0
    /\ id # parked.id
    /\ response # parked.response

====
